---- MODULE Spec2Model ----
(***************************************************************************)
(* Model of the connection / request-correlation layer of the NMS mobile   *)
(* client: WebSocketProvider in NMS_mobile/context/WebSocketContext.tsx.   *)
(*                                                                         *)
(* The provider runs on a single JavaScript event loop, so every public    *)
(* call, every transport event and every timer callback is one atomic      *)
(* action.  The transport follows the WebSocket API: a socket delivers     *)
(* open once while CONNECTING, messages only while OPEN, and nothing but   *)
(* error/close after close() was called on it.  Timers carry no clock: an  *)
(* armed timer may fire at any later step.                                 *)
(*                                                                         *)
(* Observers are the ones the application registers (screens under app/):  *)
(* they return normally and do not call connect or disconnect from inside  *)
(* a notification.  Correlation identifiers are taken to be distinct.      *)
(***************************************************************************)
EXTENDS Integers, Sequences, FiniteSets, TLC

\* ---------------------------------------------------------------- bounds
\* Number of correlation identifiers that can be drawn in one behaviour.
MaxReq == 3

\* ------------------------------------------------------ program constants
maxReconnectAttempts == 5
BackoffBaseMs == 1000
BackoffCapMs == 10000

\* ----------------------------------------------------------------- inputs
DefaultConfig == [ip |-> "192.168.0.56", port |-> "8081"]
OtherConfig == [ip |-> "10.0.0.2", port |-> "9000"]
\* An endpoint for which `new WebSocket(uri)` throws (not a valid URL).
InvalidConfig == [ip |-> "not a host", port |-> "x"]
Endpoints == {DefaultConfig, OtherConfig, InvalidConfig}

Actions == {"list_folders", "file_get"}

NoParams == [k \in {} |-> ""]
\* params objects: empty, an ordinary parameter, one that itself carries a
\* request_id field, and one that JSON.stringify cannot serialise.
Params ==
  { NoParams,
    [k \in {"path"} |-> "main"],
    [k \in {"request_id"} |-> "caller-id"],
    [k \in {"self"} |-> "<circular>"] }

MsgHandlers == {"m1", "m2"}
ConnHandlers == {"c1", "c2"}

\* Correlation identifiers, named by the order in which they are drawn.
IdOf(n) == ToString(n)
Ids == { IdOf(n) : n \in 1..MaxReq }

\* --------------------------------------------------------- inbound frames
\* event.data is text; what matters of it is whether it is JSON at all,
\* whether it is the JSON literal null, and which request_id / success
\* fields the object carries ("" = no request_id field).
InboundTexts ==
  { [syntax |-> "garbage", request_id |-> "", success |-> FALSE],
    [syntax |-> "null", request_id |-> "", success |-> FALSE] }
  \cup
  { [syntax |-> "object", request_id |-> r, success |-> s] :
      r \in Ids \cup {""}, s \in BOOLEAN }

NoText == [syntax |-> "none", request_id |-> "", success |-> FALSE]

NoData == [isNull |-> TRUE, request_id |-> "", success |-> FALSE]

\* (variant: text that is not JSON is read as an empty object)
JSONparse_Lenient(text) ==
  IF text.syntax = "null"
    THEN [ok |-> TRUE, value |-> NoData]
    ELSE [ok |-> TRUE,
          value |-> [isNull |-> FALSE, request_id |-> text.request_id,
                     success |-> text.success]]

\* JSON.parse(event.data)
JSONparse(text) ==
  IF text.syntax = "garbage"
    THEN [ok |-> FALSE, value |-> NoData]
    ELSE IF text.syntax = "null"
      THEN [ok |-> TRUE, value |-> NoData]
      ELSE [ok |-> TRUE,
            value |-> [isNull |-> FALSE, request_id |-> text.request_id,
                       success |-> text.success]]

\* -------------------------------------------------------- outbound frames
\* { action, request_id: requestId, ...params }: later keys win.
request(action, requestId, params) ==
  [k \in {"action", "request_id"} \cup DOMAIN params |->
     IF k \in DOMAIN params THEN params[k]
     ELSE IF k = "action" THEN action ELSE requestId]

NoFrame == [k \in {} |-> ""]

JSONstringify(frame) ==
  IF \E k \in DOMAIN frame : frame[k] = "<circular>"
    THEN [ok |-> FALSE, text |-> NoFrame]
    ELSE [ok |-> TRUE, text |-> frame]

\* ---------------------------------------------------------------- backoff
RECURSIVE Pow2(_)
Pow2(n) == IF n = 0 THEN 1 ELSE 2 * Pow2(n - 1)

Min(a, b) == IF a < b THEN a ELSE b

\* (variant: no cap)
BackoffDelay_Uncapped(attempts) == BackoffBaseMs * Pow2(attempts)

\* Math.min(1000 * Math.pow(2, attempts), 10000)
BackoffDelay(attempts) == Min(BackoffBaseMs * Pow2(attempts), BackoffCapMs)

\* (variant: one retry too many)
CanReconnect_Inclusive(attempts) == attempts <= maxReconnectAttempts

\* (variant: the comparison is turned around)
CanReconnect_Inverted(attempts) == attempts > maxReconnectAttempts

CanReconnect(attempts) == attempts < maxReconnectAttempts

\* ------------------------------------------------------------------ state
VARIABLES
  isConnected,           \* React state
  isConnecting,          \* React state
  wsRef,                 \* current transport or Null
  pendingRequestsRef,    \* keys of the Pending Request Table
  timers,                \* request identifiers whose timeout timer is armed
  messageHandlersRef,
  connectionHandlersRef,
  serverConfigRef,
  reconnectTimeoutRef,   \* 0, or the delay of the timer the handle names
  reconnectArmed,        \* the reconnect timer is still waiting to fire
  reconnectAttemptsRef,
  drawn,                 \* number of identifiers drawn so far
  completions,           \* per request: calls of resolve/reject so far
  streak,                \* what happened since the last connect/disconnect/open
  lastEvent              \* the step just taken and what it emitted

progVars ==
  <<isConnected, isConnecting, wsRef, pendingRequestsRef, timers,
    messageHandlersRef, connectionHandlersRef, serverConfigRef,
    reconnectTimeoutRef, reconnectArmed, reconnectAttemptsRef>>

vars ==
  <<isConnected, isConnecting, wsRef, pendingRequestsRef, timers,
    messageHandlersRef, connectionHandlersRef, serverConfigRef,
    reconnectTimeoutRef, reconnectArmed, reconnectAttemptsRef,
    drawn, completions, streak, lastEvent>>

Null == [readyState |-> "NULL", uri |-> ""]

Uri(ip, port) == "ws://" \o ip \o ":" \o port

UriValid(ip, port) == [ip |-> ip, port |-> port] # InvalidConfig

IsOpen == wsRef # Null /\ wsRef.readyState = "OPEN"

Bump(c, ids) == [i \in Ids |-> IF i \in ids THEN Min(c[i] + 1, 2) ELSE c[i]]

Event(op) ==
  [op |-> op,
   created |-> FALSE,     \* a WebSocket was constructed
   dropped |-> FALSE,     \* the transport held so far was closed by the step
   uri |-> "",            \* the address the WebSocket was constructed with
   cleared |-> FALSE,     \* a waiting reconnect timer was cleared
   requestId |-> "",      \* the identifier drawn or whose timer fired
   sent |-> NoFrame,      \* the frame handed to ws.send
   received |-> NoText,   \* event.data of the message event
   value |-> NoData,      \* the value passed to resolve
   data |-> NoData,       \* the value passed to the message observers
   error |-> "",          \* the message of the error raised or passed to reject
   resolved |-> {},       \* requests whose resolve was called
   rejected |-> {},       \* requests whose reject was called
   notified |-> {},       \* observers invoked
   handler |-> "",        \* the handler registered or unregistered
   duplicate |-> FALSE,   \* the handler registered was registered already
   calls |-> <<>>,        \* the observers invoked by a notify pass, in order
   behaviour |-> <<>>,    \* what each observer did when the pass invoked it
   endpoint |-> [ip |-> "", port |-> ""],
                          \* the (ip, port) a connect call was given
   detached |-> [readyState |-> "NULL", uri |-> "", handlers |-> {}],
                          \* the transport dropped, with the handlers left on it
   connected |-> FALSE]   \* the value passed to the connection observers

NewStreak(api, start) == [api |-> api, start |-> start, log |-> <<>>]

Init ==
  /\ isConnected = FALSE
  /\ isConnecting = FALSE
  /\ wsRef = Null
  /\ pendingRequestsRef = {}
  /\ timers = {}
  /\ messageHandlersRef = {}
  /\ connectionHandlersRef = {}
  /\ serverConfigRef = DefaultConfig
  /\ reconnectTimeoutRef = 0
  /\ reconnectArmed = FALSE
  /\ reconnectAttemptsRef = 0
  /\ drawn = 0
  /\ completions = [i \in Ids |-> 0]
  /\ streak = NewStreak("none", 0)
  /\ lastEvent = Event("init")

\* ----------------------------------------------------------------- connect
\* The isConnecting that connect reads.  connect is memoised with an empty
\* dependency list, so it is the closure of the first render, in which the
\* state isConnecting is still its initial value.
isConnectingInConnect == FALSE

\* (variant: connect leaves a waiting reconnect timer running)
ArmedAfterConnect_Kept == reconnectArmed

\* clearTimeout(reconnectTimeoutRef.current)
ArmedAfterConnect == FALSE

\* connect(ip, port).  fired: the call is made by the reconnect timer's
\* callback, so that timer is no longer waiting.
connect(ip, port, fired) ==
  IF IsOpen \/ isConnectingInConnect
    THEN /\ UNCHANGED <<wsRef, isConnecting, serverConfigRef,
                        reconnectTimeoutRef>>
         /\ reconnectArmed' = (reconnectArmed /\ ~fired)
    ELSE /\ reconnectTimeoutRef' = 0
         /\ reconnectArmed' = (ArmedAfterConnect /\ ~fired)
         /\ serverConfigRef' = [ip |-> ip, port |-> port]
         /\ IF UriValid(ip, port)
              THEN /\ wsRef' = [readyState |-> "CONNECTING",
                                uri |-> Uri(ip, port)]
                   /\ isConnecting' = TRUE
              ELSE /\ wsRef' = Null
                   /\ isConnecting' = FALSE

ConnectEvent(op, ip, port) ==
  IF IsOpen \/ isConnectingInConnect
    THEN Event(op)
    ELSE [Event(op) EXCEPT !.created = UriValid(ip, port),
                           !.uri = Uri(ip, port),
                           !.cleared = (reconnectTimeoutRef # 0
                                          /\ reconnectArmed),
                           !.dropped = (wsRef # Null)]

\* An explicit connect call (LoginScreen).
Connect(cfg) ==
  /\ connect(cfg.ip, cfg.port, FALSE)
  /\ streak' = NewStreak("connect", reconnectAttemptsRef)
  /\ lastEvent' = ConnectEvent("connect", cfg.ip, cfg.port)
  /\ UNCHANGED <<isConnected, pendingRequestsRef, timers, messageHandlersRef,
                 connectionHandlersRef, reconnectAttemptsRef, drawn,
                 completions>>

\* (variant: the timer reconnects to the endpoint the provider started with)
ReconnectTarget_Initial == DefaultConfig

\* serverConfigRef.current, read when the timer fires
ReconnectTarget == serverConfigRef

\* The callback of the reconnect timer armed by ws.onclose.
ReconnectTimer ==
  /\ reconnectArmed
  /\ reconnectAttemptsRef' = reconnectAttemptsRef + 1
  /\ connect(ReconnectTarget.ip, ReconnectTarget.port, TRUE)
  /\ lastEvent' = ConnectEvent("reconnect", ReconnectTarget.ip,
                               ReconnectTarget.port)
  /\ UNCHANGED <<isConnected, pendingRequestsRef, timers, messageHandlersRef,
                 connectionHandlersRef, drawn, completions, streak>>

\* ---------------------------------------------------------- transport events
\* (variant: the failure counter is left as it is)
AttemptsAfterOpen_Kept == reconnectAttemptsRef

\* reconnectAttemptsRef.current = 0
AttemptsAfterOpen == 0

OnOpen ==
  /\ wsRef # Null
  /\ wsRef.readyState = "CONNECTING"
  /\ wsRef' = [wsRef EXCEPT !.readyState = "OPEN"]
  /\ isConnected' = TRUE
  /\ isConnecting' = FALSE
  /\ reconnectAttemptsRef' = AttemptsAfterOpen
  /\ streak' = NewStreak("open", AttemptsAfterOpen)
  /\ lastEvent' = [Event("open") EXCEPT !.notified = connectionHandlersRef,
                                        !.connected = TRUE]
  /\ UNCHANGED <<pendingRequestsRef, timers, messageHandlersRef,
                 connectionHandlersRef, serverConfigRef, reconnectTimeoutRef,
                 reconnectArmed, drawn, completions>>

\* ws.onerror only logs.
OnError ==
  /\ wsRef # Null
  /\ lastEvent' = Event("error")
  /\ UNCHANGED <<progVars, drawn, completions, streak>>

\* data.request_id && pendingRequestsRef.current.has(data.request_id)
Matches(data) ==
  /\ data.request_id # ""
  /\ data.request_id \in pendingRequestsRef

\* (variant: the entry is left in the table)
PendingAfterResolve_Kept(id) == pendingRequestsRef

\* pendingRequestsRef.current.delete(data.request_id)
PendingAfterResolve(id) == pendingRequestsRef \ {id}

\* (variant: the timer of a resolved request stays armed)
TimersAfterResolve_Kept(id) == timers

\* clearTimeout(pending.timeout)
TimersAfterResolve(id) == timers \ {id}

\* (variant: the failure indicator is normalised away)
ResolveValue_Normalised(data) == [data EXCEPT !.success = TRUE]

\* pending.resolve(data)
ResolveValue(data) == data

\* (variant: only responses to outstanding requests are fanned out)
MessageFanout_MatchedOnly(data) ==
  IF data.request_id \in pendingRequestsRef THEN messageHandlersRef ELSE {}

\* messageHandlersRef.current.forEach(handler => handler(data))
MessageFanout(data) == messageHandlersRef

OnMessage(text) ==
  LET parsed == JSONparse(text)
      data == parsed.value
  IN
  /\ IsOpen
  /\ IF parsed.ok /\ ~data.isNull
       THEN /\ IF Matches(data)
                 THEN /\ timers' = TimersAfterResolve(data.request_id)
                      /\ pendingRequestsRef' =
                           PendingAfterResolve(data.request_id)
                      /\ completions' = Bump(completions, {data.request_id})
                      /\ lastEvent' = [Event("message") EXCEPT
                                         !.received = text,
                                         !.resolved = {data.request_id},
                                         !.value = ResolveValue(data),
                                         !.data = data,
                                         !.notified = MessageFanout(data)]
                 ELSE /\ UNCHANGED <<timers, pendingRequestsRef,
                                     completions>>
                      /\ lastEvent' = [Event("message") EXCEPT
                                         !.received = text,
                                         !.data = data,
                                         !.notified = MessageFanout(data)]
       ELSE \* JSON.parse threw, or reading request_id of null threw:
            \* the catch block logs and the frame is dropped
            /\ lastEvent' = [Event("message") EXCEPT
                               !.received = text,
                               !.error = IF parsed.ok THEN "TypeError"
                                         ELSE "SyntaxError"]
            /\ UNCHANGED <<timers, pendingRequestsRef, completions>>
  /\ UNCHANGED <<isConnected, isConnecting, wsRef, messageHandlersRef,
                 connectionHandlersRef, serverConfigRef, reconnectTimeoutRef,
                 reconnectArmed, reconnectAttemptsRef, drawn, streak>>

\* clearTimeout(pending.timeout) for every entry
TimersAfterClose == timers \ pendingRequestsRef

\* (variant: the table is not cleared)
PendingAfterClose_Kept == pendingRequestsRef

\* pendingRequestsRef.current.clear()
PendingAfterClose == {}

\* The transport closed or failed to connect (ws.onclose).
OnClose ==
  /\ wsRef # Null
  /\ isConnected' = FALSE
  /\ isConnecting' = FALSE
  /\ wsRef' = Null
  /\ timers' = TimersAfterClose
  /\ completions' = Bump(completions, pendingRequestsRef)
  /\ pendingRequestsRef' = PendingAfterClose
  /\ IF CanReconnect(reconnectAttemptsRef)
       THEN /\ reconnectTimeoutRef' = BackoffDelay(reconnectAttemptsRef)
            /\ reconnectArmed' = TRUE
            /\ streak' = [streak EXCEPT !.log =
                            Append(@, BackoffDelay(reconnectAttemptsRef))]
       ELSE /\ UNCHANGED <<reconnectTimeoutRef, reconnectArmed>>
            /\ streak' = [streak EXCEPT !.log = Append(@, 0)]
  /\ lastEvent' = [Event("close") EXCEPT !.notified = connectionHandlersRef,
                                         !.connected = FALSE,
                                         !.rejected = pendingRequestsRef,
                                         !.error = "Connection closed"]
  /\ UNCHANGED <<messageHandlersRef, connectionHandlersRef, serverConfigRef,
                 reconnectAttemptsRef, drawn>>

\* --------------------------------------------------------------- disconnect
AttemptsAfterDisconnect == maxReconnectAttempts

\* (variant: the reconnect timer is left running)
ArmedAfterDisconnect_Kept == reconnectArmed

\* clearTimeout(reconnectTimeoutRef.current)
ArmedAfterDisconnect == FALSE

\* (variant: the request timers are left running)
TimersAfterDisconnect_Kept == timers

\* clearTimeout(pending.timeout) for every entry
TimersAfterDisconnect == timers \ pendingRequestsRef

\* (variant: disconnect leaves the table as it is)
PendingAfterDisconnect_Kept == pendingRequestsRef

\* pendingRequestsRef.current.clear()
PendingAfterDisconnect == {}

\* (variant: disconnect leaves the isConnected flag as it is)
ConnectedAfterDisconnect_Kept == isConnected

\* setIsConnected(false)
ConnectedAfterDisconnect == FALSE

disconnect ==
  /\ reconnectAttemptsRef' = AttemptsAfterDisconnect
  /\ IF reconnectTimeoutRef # 0
       THEN /\ reconnectArmed' = ArmedAfterDisconnect
            /\ reconnectTimeoutRef' = 0
       ELSE UNCHANGED <<reconnectArmed, reconnectTimeoutRef>>
  /\ wsRef' = Null
  /\ isConnected' = ConnectedAfterDisconnect
  /\ isConnecting' = FALSE
  /\ timers' = TimersAfterDisconnect
  /\ completions' = Bump(completions, pendingRequestsRef)
  /\ pendingRequestsRef' = PendingAfterDisconnect
  /\ streak' = NewStreak("disconnect", AttemptsAfterDisconnect)
  /\ UNCHANGED <<messageHandlersRef, connectionHandlersRef, serverConfigRef,
                 drawn>>

DisconnectEvent(op) ==
  [Event(op) EXCEPT !.dropped = (wsRef # Null),
                    !.cleared = (reconnectTimeoutRef # 0 /\ reconnectArmed),
                    !.rejected = pendingRequestsRef,
                    !.error = "Disconnected"]

\* An explicit disconnect call (LoginScreen.saveServerSettings).
Disconnect ==
  /\ disconnect
  /\ lastEvent' = DisconnectEvent("disconnect")

\* The provider's effect cleanup.
Unmount ==
  /\ disconnect
  /\ lastEvent' = DisconnectEvent("unmount")

\* -------------------------------------------------------------- sendRequest
\* The identifier generateRequestId returns: a token not drawn before.
generateRequestId == { IdOf(drawn + 1) }

\* (variant: the readyState is not looked at)
NotConnected_NullOnly == wsRef = Null

\* if (!wsRef.current || wsRef.current.readyState !== WebSocket.OPEN)
NotConnected == wsRef = Null \/ wsRef.readyState # "OPEN"

\* (variant: the entry of a request that could not be sent stays registered)
PendingAfterSendFailure_Kept(table, id) == table

\* catch: pendingRequestsRef.current.delete(requestId)
PendingAfterSendFailure(table, id) == table \ {id}

SendRequest(action, params) ==
  IF NotConnected
    THEN /\ lastEvent' = [Event("sendRequest") EXCEPT
                            !.error = "WebSocket not connected"]
         /\ UNCHANGED <<progVars, drawn, completions, streak>>
    ELSE
      /\ drawn < MaxReq
      /\ \E requestId \in generateRequestId :
           LET frame == request(action, requestId, params)
               text == JSONstringify(frame)
           IN
           /\ drawn' = drawn + 1
           /\ IF text.ok
                THEN /\ timers' = timers \cup {requestId}
                     /\ pendingRequestsRef' =
                          pendingRequestsRef \cup {requestId}
                     /\ completions' = completions
                     /\ lastEvent' = [Event("sendRequest") EXCEPT
                                        !.requestId = requestId,
                                        !.sent = text.text]
                ELSE \* send failed: the entry just registered is withdrawn
                     /\ timers' = (timers \cup {requestId}) \ {requestId}
                     /\ pendingRequestsRef' = PendingAfterSendFailure(
                          pendingRequestsRef \cup {requestId}, requestId)
                     /\ completions' = Bump(completions, {requestId})
                     /\ lastEvent' = [Event("sendRequest") EXCEPT
                                        !.requestId = requestId,
                                        !.rejected = {requestId},
                                        !.error = "send failed"]
      /\ UNCHANGED <<isConnected, isConnecting, wsRef, messageHandlersRef,
                     connectionHandlersRef, serverConfigRef,
                     reconnectTimeoutRef, reconnectArmed,
                     reconnectAttemptsRef, streak>>

\* if (pendingRequestsRef.current.has(requestId))
TimeoutApplies(id) == id \in pendingRequestsRef

\* (variant: the whole table is dropped)
PendingAfterTimeout_All(id) == {}

\* pendingRequestsRef.current.delete(requestId)
PendingAfterTimeout(id) == pendingRequestsRef \ {id}

\* The callback of the 30 s timer armed by sendRequest for request id.
RequestTimeout(id) ==
  /\ id \in timers
  /\ timers' = timers \ {id}
  /\ IF TimeoutApplies(id)
       THEN /\ pendingRequestsRef' = PendingAfterTimeout(id)
            /\ completions' = Bump(completions, {id})
            /\ lastEvent' = [Event("timeout") EXCEPT
                               !.requestId = id,
                               !.rejected = {id},
                               !.error = "Request timeout"]
       ELSE /\ UNCHANGED <<pendingRequestsRef, completions>>
            /\ lastEvent' = [Event("timeout") EXCEPT !.requestId = id]
  /\ UNCHANGED <<isConnected, isConnecting, wsRef, messageHandlersRef,
                 connectionHandlersRef, serverConfigRef, reconnectTimeoutRef,
                 reconnectArmed, reconnectAttemptsRef, drawn, streak>>

\* --------------------------------------------------------- handler registries
AddMessageHandler(h) ==
  /\ messageHandlersRef' = messageHandlersRef \cup {h}
  /\ lastEvent' = [Event("addMessageHandler") EXCEPT
                     !.handler = h,
                     !.duplicate = (h \in messageHandlersRef)]
  /\ UNCHANGED <<isConnected, isConnecting, wsRef, pendingRequestsRef, timers,
                 connectionHandlersRef, serverConfigRef, reconnectTimeoutRef,
                 reconnectArmed, reconnectAttemptsRef, drawn, completions,
                 streak>>

\* The function addMessageHandler returned for h.
RemoveMessageHandler(h) ==
  /\ h \in messageHandlersRef
  /\ messageHandlersRef' = messageHandlersRef \ {h}
  /\ lastEvent' = [Event("removeMessageHandler") EXCEPT !.handler = h]
  /\ UNCHANGED <<isConnected, isConnecting, wsRef, pendingRequestsRef, timers,
                 connectionHandlersRef, serverConfigRef, reconnectTimeoutRef,
                 reconnectArmed, reconnectAttemptsRef, drawn, completions,
                 streak>>

AddConnectionHandler(h) ==
  /\ connectionHandlersRef' = connectionHandlersRef \cup {h}
  /\ lastEvent' = [Event("addConnectionHandler") EXCEPT
                     !.handler = h,
                     !.duplicate = (h \in connectionHandlersRef)]
  /\ UNCHANGED <<isConnected, isConnecting, wsRef, pendingRequestsRef, timers,
                 messageHandlersRef, serverConfigRef, reconnectTimeoutRef,
                 reconnectArmed, reconnectAttemptsRef, drawn, completions,
                 streak>>

\* The function addConnectionHandler returned for h.
RemoveConnectionHandler(h) ==
  /\ h \in connectionHandlersRef
  /\ connectionHandlersRef' = connectionHandlersRef \ {h}
  /\ lastEvent' = [Event("removeConnectionHandler") EXCEPT !.handler = h]
  /\ UNCHANGED <<isConnected, isConnecting, wsRef, pendingRequestsRef, timers,
                 messageHandlersRef, serverConfigRef, reconnectTimeoutRef,
                 reconnectArmed, reconnectAttemptsRef, drawn, completions,
                 streak>>

\* ------------------------------------------------------------ specification
Next ==
  \/ \E cfg \in Endpoints : Connect(cfg)
  \/ ReconnectTimer
  \/ OnOpen
  \/ OnError
  \/ \E text \in InboundTexts : OnMessage(text)
  \/ OnClose
  \/ Disconnect
  \/ Unmount
  \/ \E action \in Actions, params \in Params : SendRequest(action, params)
  \/ \E id \in Ids : RequestTimeout(id)
  \/ \E h \in MsgHandlers : AddMessageHandler(h)
  \/ \E h \in MsgHandlers : RemoveMessageHandler(h)
  \/ \E h \in ConnHandlers : AddConnectionHandler(h)
  \/ \E h \in ConnHandlers : RemoveConnectionHandler(h)

Spec == Init /\ [][Next]_vars

\* Armed timers fire: the event loop runs every timer that is not cleared.
FairSpec ==
  /\ Spec
  /\ \A id \in Ids : WF_vars(RequestTimeout(id))

\* The reconnect timer armed by ws.onclose fires unless it is cleared.
ReconnectFairSpec ==
  /\ Spec
  /\ WF_vars(ReconnectTimer)

TypeOK ==
  /\ isConnected \in BOOLEAN
  /\ isConnecting \in BOOLEAN
  /\ pendingRequestsRef \subseteq Ids
  /\ timers \subseteq Ids
  /\ reconnectAttemptsRef \in 0..maxReconnectAttempts
  /\ drawn \in 0..MaxReq

\* ============================================== notify passes, re-entrant
\* The registries are JavaScript Sets, and both notify passes are
\* Set.prototype.forEach.  An observer is client code: from inside its
\* callback it may call addMessageHandler / addConnectionHandler or an
\* unsubscribe function.  Here the registries are kept as the Set's entry
\* list, in insertion order, and a pass is run entry by entry.

\* A deleted entry of the entry list (ECMAScript 24.2.3.4: "set e to empty").
Empty == ""

\* What an observer does when invoked; it then returns normally.
Return == [do |-> "return", h |-> ""]

Behaviours(handlers) ==
  {Return} \cup [do : {"add", "delete"}, h : handlers]

\* Set.prototype.add: appends unless the value is an entry already
SetAdd(data, h) ==
  IF \E i \in DOMAIN data : data[i] = h THEN data ELSE Append(data, h)

\* (variant: the entry is cut out of the list and later entries move up)
SetDelete_Compacting(data, h) == SelectSeq(data, LAMBDA e : e # h)

\* Set.prototype.delete: the entry is emptied, the list keeps its length
SetDelete(data, h) ==
  [i \in DOMAIN data |-> IF data[i] = h THEN Empty ELSE data[i]]

\* the entries of the Set once no pass is running
Entries(data) == SelectSeq(data, LAMBDA e : e # Empty)

\* the observer's body: () => registry.add(h) / registry.delete(h)
Invoke(data, b) ==
  CASE b.do = "add" -> SetAdd(data, b.h)
    [] b.do = "delete" -> SetDelete(data, b.h)
    [] OTHER -> data

RECURSIVE forEach(_, _, _, _)
\* registry.forEach(handler => handler(...)): the index walks the live
\* entry list, so entries appended during the pass are visited and entries
\* emptied before they are reached are skipped.
forEach(data, index, behaviour, calls) ==
  IF index > Len(data)
    THEN [registry |-> Entries(data), calls |-> calls]
    ELSE IF data[index] = Empty
      THEN forEach(data, index + 1, behaviour, calls)
      ELSE forEach(Invoke(data, behaviour[data[index]]), index + 1,
                   behaviour, Append(calls, data[index]))

NotifyInit ==
  /\ isConnected = FALSE
  /\ isConnecting = FALSE
  /\ wsRef = Null
  /\ pendingRequestsRef = {}
  /\ timers = {}
  /\ messageHandlersRef = <<>>
  /\ connectionHandlersRef = <<>>
  /\ serverConfigRef = DefaultConfig
  /\ reconnectTimeoutRef = 0
  /\ reconnectArmed = FALSE
  /\ reconnectAttemptsRef = 0
  /\ drawn = 0
  /\ completions = [i \in Ids |-> 0]
  /\ streak = NewStreak("none", 0)
  /\ lastEvent = Event("init")

\* ws.onopen with observers that act on the registry.
OnOpenReentrant(behaviour) ==
  LET pass == forEach(connectionHandlersRef, 1, behaviour, <<>>) IN
  /\ wsRef # Null
  /\ wsRef.readyState = "CONNECTING"
  /\ wsRef' = [wsRef EXCEPT !.readyState = "OPEN"]
  /\ isConnected' = TRUE
  /\ isConnecting' = FALSE
  /\ reconnectAttemptsRef' = AttemptsAfterOpen
  /\ streak' = NewStreak("open", AttemptsAfterOpen)
  /\ connectionHandlersRef' = pass.registry
  /\ lastEvent' = [Event("open") EXCEPT !.calls = pass.calls,
                                        !.behaviour = behaviour,
                                        !.connected = TRUE]
  /\ UNCHANGED <<pendingRequestsRef, timers, messageHandlersRef,
                 serverConfigRef, reconnectTimeoutRef, reconnectArmed, drawn,
                 completions>>

\* ws.onmessage with observers that act on the registry.
OnMessageReentrant(text, behaviour) ==
  LET parsed == JSONparse(text)
      data == parsed.value
      pass == forEach(messageHandlersRef, 1, behaviour, <<>>)
  IN
  /\ IsOpen
  /\ IF parsed.ok /\ ~data.isNull
       THEN /\ IF Matches(data)
                 THEN /\ timers' = TimersAfterResolve(data.request_id)
                      /\ pendingRequestsRef' =
                           PendingAfterResolve(data.request_id)
                      /\ completions' = Bump(completions, {data.request_id})
                 ELSE UNCHANGED <<timers, pendingRequestsRef, completions>>
            /\ messageHandlersRef' = pass.registry
            /\ lastEvent' = [Event("message") EXCEPT
                               !.received = text,
                               !.resolved = IF Matches(data)
                                              THEN {data.request_id} ELSE {},
                               !.value = IF Matches(data)
                                           THEN ResolveValue(data) ELSE NoData,
                               !.data = data,
                               !.calls = pass.calls,
                               !.behaviour = behaviour]
       ELSE /\ lastEvent' = [Event("message") EXCEPT
                               !.received = text,
                               !.error = IF parsed.ok THEN "TypeError"
                                         ELSE "SyntaxError"]
            /\ UNCHANGED <<timers, pendingRequestsRef, completions,
                           messageHandlersRef>>
  /\ UNCHANGED <<isConnected, isConnecting, wsRef, connectionHandlersRef,
                 serverConfigRef, reconnectTimeoutRef, reconnectArmed,
                 reconnectAttemptsRef, drawn, streak>>

\* ws.onclose with observers that act on the registry.
OnCloseReentrant(behaviour) ==
  LET pass == forEach(connectionHandlersRef, 1, behaviour, <<>>) IN
  /\ wsRef # Null
  /\ isConnected' = FALSE
  /\ isConnecting' = FALSE
  /\ wsRef' = Null
  /\ connectionHandlersRef' = pass.registry
  /\ timers' = TimersAfterClose
  /\ completions' = Bump(completions, pendingRequestsRef)
  /\ pendingRequestsRef' = PendingAfterClose
  /\ IF CanReconnect(reconnectAttemptsRef)
       THEN /\ reconnectTimeoutRef' = BackoffDelay(reconnectAttemptsRef)
            /\ reconnectArmed' = TRUE
            /\ streak' = [streak EXCEPT !.log =
                            Append(@, BackoffDelay(reconnectAttemptsRef))]
       ELSE /\ UNCHANGED <<reconnectTimeoutRef, reconnectArmed>>
            /\ streak' = [streak EXCEPT !.log = Append(@, 0)]
  /\ lastEvent' = [Event("close") EXCEPT !.calls = pass.calls,
                                         !.behaviour = behaviour,
                                         !.connected = FALSE,
                                         !.rejected = pendingRequestsRef,
                                         !.error = "Connection closed"]
  /\ UNCHANGED <<messageHandlersRef, serverConfigRef, reconnectAttemptsRef,
                 drawn>>

\* messageHandlersRef.current.add(handler)
addMessageHandler(h) ==
  /\ messageHandlersRef' = SetAdd(messageHandlersRef, h)
  /\ lastEvent' = [Event("addMessageHandler") EXCEPT
                     !.handler = h,
                     !.duplicate = (messageHandlersRef' = messageHandlersRef)]
  /\ UNCHANGED <<isConnected, isConnecting, wsRef, pendingRequestsRef, timers,
                 connectionHandlersRef, serverConfigRef, reconnectTimeoutRef,
                 reconnectArmed, reconnectAttemptsRef, drawn, completions,
                 streak>>

\* () => messageHandlersRef.current.delete(handler)
unsubscribeMessageHandler(h) ==
  /\ \E i \in DOMAIN messageHandlersRef : messageHandlersRef[i] = h
  /\ messageHandlersRef' = Entries(SetDelete(messageHandlersRef, h))
  /\ lastEvent' = [Event("removeMessageHandler") EXCEPT !.handler = h]
  /\ UNCHANGED <<isConnected, isConnecting, wsRef, pendingRequestsRef, timers,
                 connectionHandlersRef, serverConfigRef, reconnectTimeoutRef,
                 reconnectArmed, reconnectAttemptsRef, drawn, completions,
                 streak>>

\* connectionHandlersRef.current.add(handler)
addConnectionHandler(h) ==
  /\ connectionHandlersRef' = SetAdd(connectionHandlersRef, h)
  /\ lastEvent' = [Event("addConnectionHandler") EXCEPT
                     !.handler = h,
                     !.duplicate =
                        (connectionHandlersRef' = connectionHandlersRef)]
  /\ UNCHANGED <<isConnected, isConnecting, wsRef, pendingRequestsRef, timers,
                 messageHandlersRef, serverConfigRef, reconnectTimeoutRef,
                 reconnectArmed, reconnectAttemptsRef, drawn, completions,
                 streak>>

\* () => connectionHandlersRef.current.delete(handler)
unsubscribeConnectionHandler(h) ==
  /\ \E i \in DOMAIN connectionHandlersRef : connectionHandlersRef[i] = h
  /\ connectionHandlersRef' = Entries(SetDelete(connectionHandlersRef, h))
  /\ lastEvent' = [Event("removeConnectionHandler") EXCEPT !.handler = h]
  /\ UNCHANGED <<isConnected, isConnecting, wsRef, pendingRequestsRef, timers,
                 messageHandlersRef, serverConfigRef, reconnectTimeoutRef,
                 reconnectArmed, reconnectAttemptsRef, drawn, completions,
                 streak>>

\* The provider with observers that act on the registries.  No request is
\* sent here: the passes do not depend on the Pending Request Table.
NotifyNext ==
  \/ Connect(DefaultConfig)
  \/ ReconnectTimer
  \/ Disconnect
  \/ \E behaviour \in [ConnHandlers -> Behaviours(ConnHandlers)] :
       OnOpenReentrant(behaviour)
  \/ \E behaviour \in [ConnHandlers -> Behaviours(ConnHandlers)] :
       OnCloseReentrant(behaviour)
  \/ \E text \in InboundTexts,
        behaviour \in [MsgHandlers -> Behaviours(MsgHandlers)] :
       OnMessageReentrant(text, behaviour)
  \/ \E h \in MsgHandlers : addMessageHandler(h)
  \/ \E h \in MsgHandlers : unsubscribeMessageHandler(h)
  \/ \E h \in ConnHandlers : addConnectionHandler(h)
  \/ \E h \in ConnHandlers : unsubscribeConnectionHandler(h)

NotifySpec == NotifyInit /\ [][NotifyNext]_vars

\* ================================================ events of dropped transports
\* connect and disconnect call close() on the transport they drop.  connect
\* first sets onclose, onerror, onmessage and onopen to null; disconnect
\* sets only onclose to null.  An event that the platform had already
\* queued for the dropped transport when close() was called is delivered to
\* whatever handler is still attached.  The dropped transport is remembered
\* in lastEvent.detached until the next step of the provider.

HandlerNames == {"onopen", "onmessage", "onerror", "onclose"}

\* wsRef.current.onclose = null ... onopen = null
HandlersLeftByConnect == HandlerNames \ HandlerNames

\* wsRef.current.onclose = null
HandlersLeftByDisconnect == HandlerNames \ {"onclose"}

Detach(ws, handlers) ==
  [readyState |-> ws.readyState, uri |-> ws.uri,
   handlers |-> IF ws = Null THEN {} ELSE handlers]

\* connect(ip, port), remembering the transport it replaces.
ConnectDetaching(cfg) ==
  /\ connect(cfg.ip, cfg.port, FALSE)
  /\ streak' = NewStreak("connect", reconnectAttemptsRef)
  /\ lastEvent' =
       [ConnectEvent("connect", cfg.ip, cfg.port) EXCEPT
          !.detached = IF IsOpen \/ isConnectingInConnect
                         THEN Detach(Null, {})
                         ELSE Detach(wsRef, HandlersLeftByConnect)]
  /\ UNCHANGED <<isConnected, pendingRequestsRef, timers, messageHandlersRef,
                 connectionHandlersRef, reconnectAttemptsRef, drawn,
                 completions>>

\* disconnect(), remembering the transport it drops.
DisconnectDetaching ==
  /\ disconnect
  /\ lastEvent' = [DisconnectEvent("disconnect") EXCEPT
                     !.detached = Detach(wsRef, HandlersLeftByDisconnect)]

\* The open event of a dropped transport that was still connecting: the
\* body of ws.onopen runs.
StaleOpen ==
  /\ lastEvent.detached.readyState = "CONNECTING"
  /\ "onopen" \in lastEvent.detached.handlers
  /\ isConnected' = TRUE
  /\ isConnecting' = FALSE
  /\ reconnectAttemptsRef' = AttemptsAfterOpen
  /\ streak' = NewStreak("open", AttemptsAfterOpen)
  /\ lastEvent' = [Event("staleOpen") EXCEPT
                     !.notified = connectionHandlersRef,
                     !.connected = TRUE,
                     !.detached = [lastEvent.detached EXCEPT
                                     !.readyState = "OPEN"]]
  /\ UNCHANGED <<wsRef, pendingRequestsRef, timers, messageHandlersRef,
                 connectionHandlersRef, serverConfigRef, reconnectTimeoutRef,
                 reconnectArmed, drawn, completions>>

\* A message event of a dropped transport that was open: the body of
\* ws.onmessage runs.
StaleMessage(text) ==
  LET parsed == JSONparse(text)
      data == parsed.value
  IN
  /\ lastEvent.detached.readyState = "OPEN"
  /\ "onmessage" \in lastEvent.detached.handlers
  /\ IF parsed.ok /\ ~data.isNull
       THEN /\ IF Matches(data)
                 THEN /\ timers' = TimersAfterResolve(data.request_id)
                      /\ pendingRequestsRef' =
                           PendingAfterResolve(data.request_id)
                      /\ completions' = Bump(completions, {data.request_id})
                 ELSE UNCHANGED <<timers, pendingRequestsRef, completions>>
            /\ lastEvent' = [Event("staleMessage") EXCEPT
                               !.received = text,
                               !.resolved = IF Matches(data)
                                              THEN {data.request_id} ELSE {},
                               !.value = IF Matches(data)
                                           THEN ResolveValue(data) ELSE NoData,
                               !.data = data,
                               !.notified = MessageFanout(data),
                               !.detached = lastEvent.detached]
       ELSE /\ lastEvent' = [Event("staleMessage") EXCEPT
                               !.received = text,
                               !.error = IF parsed.ok THEN "TypeError"
                                         ELSE "SyntaxError",
                               !.detached = lastEvent.detached]
            /\ UNCHANGED <<timers, pendingRequestsRef, completions>>
  /\ UNCHANGED <<isConnected, isConnecting, wsRef, messageHandlersRef,
                 connectionHandlersRef, serverConfigRef, reconnectTimeoutRef,
                 reconnectArmed, reconnectAttemptsRef, drawn, streak>>

\* The error event of a dropped transport: ws.onerror only logs.
StaleError ==
  /\ lastEvent.detached.readyState # "NULL"
  /\ "onerror" \in lastEvent.detached.handlers
  /\ lastEvent' = [Event("staleError") EXCEPT
                     !.detached = lastEvent.detached]
  /\ UNCHANGED <<progVars, drawn, completions, streak>>

\* The provider with the late events of the transports it dropped.  No
\* request is sent here: disconnect has emptied the table by then.
StaleNext ==
  \/ \E cfg \in Endpoints : ConnectDetaching(cfg)
  \/ DisconnectDetaching
  \/ ReconnectTimer
  \/ OnOpen
  \/ OnError
  \/ \E text \in InboundTexts : OnMessage(text)
  \/ OnClose
  \/ StaleOpen
  \/ \E text \in InboundTexts : StaleMessage(text)
  \/ StaleError
  \/ \E h \in MsgHandlers : AddMessageHandler(h)
  \/ \E h \in ConnHandlers : AddConnectionHandler(h)

StaleSpec == Init /\ [][StaleNext]_vars

\* ====================================================== observers that throw
\* notifyConnectionHandlers calls the observers with nothing to catch what
\* they throw, and ws.onclose calls it before it rejects the pending
\* requests and schedules the reconnect.

\* ws.onclose when observer h throws: the observers before h in the Set
\* were invoked, the exception leaves forEach and ws.onclose, and the
\* statements after notifyConnectionHandlers(false) do not run.
OnCloseObserverThrows(h) ==
  /\ wsRef # Null
  /\ h \in connectionHandlersRef
  /\ isConnected' = FALSE
  /\ isConnecting' = FALSE
  /\ wsRef' = Null
  /\ \E before \in SUBSET (connectionHandlersRef \ {h}) :
       lastEvent' = [Event("close") EXCEPT !.notified = before \cup {h},
                                          !.connected = FALSE,
                                          !.error = "observer threw"]
  /\ UNCHANGED <<pendingRequestsRef, timers, messageHandlersRef,
                 connectionHandlersRef, serverConfigRef, reconnectTimeoutRef,
                 reconnectArmed, reconnectAttemptsRef, drawn, completions,
                 streak>>

\* The provider with connection observers that may throw.
ObserverNext ==
  \/ Connect(DefaultConfig)
  \/ ReconnectTimer
  \/ OnOpen
  \/ OnClose
  \/ \E h \in ConnHandlers : OnCloseObserverThrows(h)
  \/ Disconnect
  \/ \E action \in Actions : SendRequest(action, NoParams)
  \/ \E id \in Ids : RequestTimeout(id)
  \/ \E h \in ConnHandlers : AddConnectionHandler(h)
  \/ \E h \in ConnHandlers : RemoveConnectionHandler(h)

ObserverSpec == Init /\ [][ObserverNext]_vars

\* ===================================================== the endpoint remembered
\* connect(ip, port) as LoginScreen calls it, with the endpoint it was given
\* recorded whether or not the call was ignored.
ConnectTo(cfg) ==
  /\ connect(cfg.ip, cfg.port, FALSE)
  /\ streak' = NewStreak("connect", reconnectAttemptsRef)
  /\ lastEvent' = [ConnectEvent("connect", cfg.ip, cfg.port) EXCEPT
                     !.endpoint = cfg]
  /\ UNCHANGED <<isConnected, pendingRequestsRef, timers, messageHandlersRef,
                 connectionHandlersRef, reconnectAttemptsRef, drawn,
                 completions>>

\* The connection life cycle alone: connect calls, the transport's events,
\* the reconnect timer and disconnect.
EndpointNext ==
  \/ \E cfg \in Endpoints : ConnectTo(cfg)
  \/ ReconnectTimer
  \/ OnOpen
  \/ OnClose
  \/ Disconnect

EndpointSpec == Init /\ [][EndpointNext]_vars

\* ================================================================== claims

Issued(id) == \E n \in 1..drawn : id = IdOf(n)

TransportErrors == {"Request timeout", "Connection closed", "Disconnected"}

\* A request leaves the table only in a step that completes it, and it is
\* completed at most once.
ExactlyOnceState ==
  \A id \in Ids :
    /\ completions[id] <= 1
    /\ id \in pendingRequestsRef => completions[id] = 0 /\ id \in timers
    /\ Issued(id) /\ id \notin pendingRequestsRef => completions[id] = 1
    /\ ~Issued(id) => completions[id] = 0 /\ id \notin pendingRequestsRef

\* The completion of an outstanding request is its own response, a timeout
\* or a connection-closed/disconnected error.
ExactlyOnceStep ==
  \A id \in pendingRequestsRef :
    completions'[id] # completions[id] =>
      \/ /\ lastEvent'.resolved = {id}
         /\ lastEvent'.rejected = {}
         /\ lastEvent'.value.request_id = id
      \/ /\ id \in lastEvent'.rejected
         /\ lastEvent'.resolved = {}
         /\ lastEvent'.error \in TransportErrors

\* C1: every request sendRequest accepts while the transport is open is
\* completed exactly once - by the response carrying its identifier, by a
\* timeout error or by a connection-closed/disconnected error - never twice
\* and never not at all, whatever the order of responses, timeouts, transport
\* closes and disconnect calls.
C1_ExactlyOnce ==
  /\ []ExactlyOnceState
  /\ [][ExactlyOnceStep]_vars
  /\ \A id \in Ids : (id \in pendingRequestsRef) ~> (completions[id] = 1)

\* Two requests were outstanding; one was answered, the other rejected by a
\* close of the transport.
C1_Witness ==
  /\ lastEvent.op = "close"
  /\ Cardinality(lastEvent.rejected) = 2
  /\ \E id \in Ids : completions[id] = 1 /\ id \notin lastEvent.rejected

Connecting == wsRef # Null /\ wsRef.readyState = "CONNECTING"

Disconnected ==
  /\ wsRef = Null
  /\ ~isConnected
  /\ ~isConnecting

\* C2: calling connect while the manager is already Connecting or Connected
\* is a no-op: no second transport is opened, the existing transport is not
\* closed or replaced, and no state changes.
C2_ConnectIsNoOp ==
  [][ (lastEvent'.op = "connect" /\ (Connecting \/ IsOpen)) =>
        /\ ~lastEvent'.created
        /\ ~lastEvent'.dropped
        /\ UNCHANGED progVars ]_vars

\* C3: when an open transport closes with N outstanding requests, all N are
\* rejected with the connection-closed error in that close event, their
\* timers are cancelled and the table is empty afterwards.
C3_CloseRejectsAll ==
  [][ (lastEvent'.op = "close" /\ IsOpen) =>
        /\ lastEvent'.rejected = pendingRequestsRef
        /\ lastEvent'.resolved = {}
        /\ lastEvent'.error = "Connection closed"
        /\ \A id \in pendingRequestsRef : completions'[id] = completions[id] + 1
        /\ timers' = {}
        /\ pendingRequestsRef' = {} ]_vars

C3_Witness ==
  /\ lastEvent.op = "close"
  /\ Cardinality(lastEvent.rejected) = 3
  /\ pendingRequestsRef = {}

ExpectedBackoff == <<1000, 2000, 4000, 8000, 10000, 0>>

\* C4: with consecutive connection failures and no connect/disconnect call in
\* between, starting from a failure count of 0, the delays scheduled before
\* the successive reconnect attempts are 1000, 2000, 4000, 8000, 10000 ms;
\* when the fifth retry fails nothing is scheduled and the manager stays
\* Disconnected.
C4_BackoffSequence ==
  streak.start = 0 =>
    /\ Len(streak.log) <= Len(ExpectedBackoff)
    /\ \A i \in 1..Len(streak.log) : streak.log[i] = ExpectedBackoff[i]
    /\ Len(streak.log) = Len(ExpectedBackoff) =>
         Disconnected /\ ~reconnectArmed

C4_Witness ==
  /\ streak.start = 0
  /\ Len(streak.log) = 6
  /\ lastEvent.op = "close"

\* C5: sendRequest called while the transport is not open fails at once with
\* the not-connected error: no identifier is registered, no timer is armed,
\* no frame is transmitted and nothing is kept for a later connection.
C5_NotConnectedFailsFast ==
  [][ (lastEvent'.op = "sendRequest" /\ ~IsOpen) =>
        /\ lastEvent'.error = "WebSocket not connected"
        /\ lastEvent'.requestId = ""
        /\ lastEvent'.sent = NoFrame
        /\ UNCHANGED <<progVars, drawn, completions>> ]_vars

C5_Witness ==
  /\ lastEvent.op = "sendRequest"
  /\ lastEvent.error = "WebSocket not connected"
  /\ Connecting

C7_DisconnectRejectsAll ==
  [][ lastEvent'.op \in {"disconnect", "unmount"} =>
        /\ lastEvent'.rejected = pendingRequestsRef
        /\ lastEvent'.resolved = {}
        /\ \A id \in pendingRequestsRef : completions'[id] = completions[id] + 1
        /\ pendingRequestsRef' = {}
        /\ timers' = {} ]_vars

C7_Witness ==
  /\ lastEvent.op = "unmount"
  /\ Cardinality(lastEvent.rejected) >= 2
  /\ lastEvent.error = "Disconnected"

\* C8: when a request's timer elapses while its entry is in the table, the
\* entry is removed and the request fails with the request-timeout error;
\* the other entries and the connection state are unchanged.
C8_TimeoutRejectsOne ==
  [][ (lastEvent'.op = "timeout"
         /\ lastEvent'.requestId \in pendingRequestsRef) =>
        /\ pendingRequestsRef' = pendingRequestsRef \ {lastEvent'.requestId}
        /\ timers' = timers \ {lastEvent'.requestId}
        /\ lastEvent'.rejected = {lastEvent'.requestId}
        /\ lastEvent'.resolved = {}
        /\ lastEvent'.error = "Request timeout"
        /\ completions' = Bump(completions, {lastEvent'.requestId})
        /\ UNCHANGED <<isConnected, isConnecting, wsRef, reconnectTimeoutRef,
                       reconnectArmed, reconnectAttemptsRef>> ]_vars

C8_Witness ==
  /\ lastEvent.op = "timeout"
  /\ lastEvent.rejected # {}
  /\ pendingRequestsRef # {}
  /\ IsOpen

\* C9: an inbound frame whose request_id is that of an outstanding request
\* completes that request and no other, successfully, with the frame itself
\* as the value - also when the frame carries a failure indicator, and
\* whatever the order of the responses.
C9_ResponseResolvesItsRequest ==
  [][ (lastEvent'.op = "message"
         /\ lastEvent'.received.syntax = "object"
         /\ lastEvent'.received.request_id \in pendingRequestsRef) =>
        /\ lastEvent'.resolved = {lastEvent'.received.request_id}
        /\ lastEvent'.rejected = {}
        /\ lastEvent'.value.request_id = lastEvent'.received.request_id
        /\ lastEvent'.value.success = lastEvent'.received.success
        /\ ~lastEvent'.value.isNull
        /\ completions' =
             Bump(completions, {lastEvent'.received.request_id})
        /\ pendingRequestsRef' =
             pendingRequestsRef \ {lastEvent'.received.request_id} ]_vars

\* The second request is answered, with a failure indicator, while the first
\* is still outstanding.
C9_Witness ==
  /\ lastEvent.op = "message"
  /\ lastEvent.resolved = {IdOf(2)}
  /\ ~lastEvent.value.success
  /\ IdOf(1) \in pendingRequestsRef

\* C10: an inbound frame whose request_id matches no outstanding request (a
\* late response included) is delivered to the message observers and leaves
\* the table and every request's result as they were.
C10_UnmatchedFrameOnlyFansOut ==
  [][ (lastEvent'.op = "message"
         /\ lastEvent'.received.syntax = "object"
         /\ lastEvent'.received.request_id \notin pendingRequestsRef) =>
        /\ lastEvent'.notified = messageHandlersRef
        /\ lastEvent'.data.request_id = lastEvent'.received.request_id
        /\ lastEvent'.data.success = lastEvent'.received.success
        /\ lastEvent'.resolved = {}
        /\ lastEvent'.rejected = {}
        /\ UNCHANGED <<pendingRequestsRef, timers, completions>> ]_vars

\* A response to a request that was already completed arrives while another
\* request is outstanding and two observers are registered.
C10_Witness ==
  /\ lastEvent.op = "message"
  /\ lastEvent.received.request_id = IdOf(1)
  /\ lastEvent.resolved = {}
  /\ completions[IdOf(1)] = 1
  /\ lastEvent.notified = MsgHandlers
  /\ pendingRequestsRef # {}

\* C11: every successfully parsed inbound message, whether or not it matched
\* a pending request, is delivered once to every message observer registered
\* at that moment.
C11_EveryParsedMessageFansOut ==
  [][ (lastEvent'.op = "message" /\ JSONparse(lastEvent'.received).ok) =>
        lastEvent'.notified = messageHandlersRef ]_vars

\* C12: whenever the manager leaves the Connected state, by a close of the
\* transport or by disconnect(), every registered connection observer is
\* notified with false, and whenever it enters Connected every registered
\* connection observer is notified with true.
C12_ObserversSeeEveryTransition ==
  [][ /\ (IsOpen /\ ~IsOpen') =>
           lastEvent'.notified = connectionHandlersRef
             /\ ~lastEvent'.connected
      /\ (~IsOpen /\ IsOpen') =>
           lastEvent'.notified = connectionHandlersRef
             /\ lastEvent'.connected ]_vars

\* C13: when a connecting transport opens, the consecutive-failure counter is
\* reset to 0, so the first close after any successful (re)connection
\* schedules a reconnect after 1000 ms and the whole budget of 5 retries is
\* available again.
C13_OpenResetsBackoff ==
  /\ IsOpen => reconnectAttemptsRef = 0
  /\ streak.api = "open" =>
       /\ streak.start = 0
       /\ Len(streak.log) <= Len(ExpectedBackoff)
       /\ \A i \in 1..Len(streak.log) : streak.log[i] = ExpectedBackoff[i]

\* After a transport opened, five retries were scheduled and all failed.
C13_Witness ==
  /\ streak.api = "open"
  /\ Len(streak.log) = Len(ExpectedBackoff)
  /\ streak.log[1] = 1000

\* C14: registering the same handler twice with addMessageHandler (or
\* addConnectionHandler) yields two independent subscriptions: after the
\* second registration, calling one of the two unsubscribe functions leaves
\* the handler subscribed.
C14_DuplicateRegistrationIsIndependent ==
  [][ /\ (/\ lastEvent.op = "addMessageHandler"
          /\ lastEvent.duplicate
          /\ lastEvent'.op = "removeMessageHandler"
          /\ lastEvent'.handler = lastEvent.handler) =>
           lastEvent.handler \in messageHandlersRef'
      /\ (/\ lastEvent.op = "addConnectionHandler"
          /\ lastEvent.duplicate
          /\ lastEvent'.op = "removeConnectionHandler"
          /\ lastEvent'.handler = lastEvent.handler) =>
           lastEvent.handler \in connectionHandlersRef' ]_vars

\* C17: in every reachable state the armed request timers are exactly the
\* timers of the requests in the Pending Request Table, and a request timer
\* never fires for a request that was already resolved or rejected: every
\* timer that fires finds its request in the table and rejects it.
C17_TimersMatchPendingTable ==
  /\ timers = pendingRequestsRef
  /\ lastEvent.op = "timeout" =>
       /\ lastEvent.rejected = {lastEvent.requestId}
       /\ completions[lastEvent.requestId] = 1

C17_Witness ==
  /\ lastEvent.op = "message"
  /\ lastEvent.resolved # {}
  /\ pendingRequestsRef # {}
  /\ timers = pendingRequestsRef

\* C19: an inbound frame that fails to parse is dropped without effect: the
\* transport stays open, the Pending Request Table and its timers are
\* unchanged, no request is resolved or rejected, and no message observer
\* is invoked.
C19_MalformedFrameIsDropped ==
  [][ (lastEvent'.op = "message" /\ lastEvent'.received.syntax = "garbage") =>
        /\ UNCHANGED <<progVars, drawn, completions>>
        /\ IsOpen'
        /\ lastEvent'.resolved = {}
        /\ lastEvent'.rejected = {}
        /\ lastEvent'.notified = {} ]_vars

C19_Witness ==
  /\ lastEvent.op = "message"
  /\ lastEvent.received.syntax = "garbage"
  /\ lastEvent.error = "SyntaxError"
  /\ messageHandlersRef # {}
  /\ pendingRequestsRef # {}
  /\ IsOpen

\* C20: after an open transport closes without a disconnect() call, the
\* manager arms the reconnect timer with the first backoff delay; when the
\* timer elapses it constructs a new transport to the remembered server by
\* itself; and when a connecting transport opens, the manager is Connected.
\* The timer is only ever pre-empted by an API call (connect, disconnect,
\* unmount), which clears it.
ReconnectScheduled ==
  (IsOpen /\ lastEvent'.op = "close") =>
    /\ reconnectArmed'
    /\ reconnectTimeoutRef' = BackoffBaseMs
    /\ wsRef' = Null
    /\ ~isConnected'

ReconnectOpensTransport ==
  (reconnectArmed /\ lastEvent'.op = "reconnect") =>
    /\ lastEvent'.created
    /\ lastEvent'.uri = Uri(serverConfigRef.ip, serverConfigRef.port)
    /\ wsRef' = [readyState |-> "CONNECTING", uri |-> lastEvent'.uri]
    /\ ~reconnectArmed'

OpenMakesConnected ==
  (lastEvent'.op = "open") => (IsOpen' /\ isConnected' /\ ~isConnecting')

C20_ReconnectsByItself ==
  /\ [][ReconnectScheduled /\ ReconnectOpensTransport
          /\ OpenMakesConnected]_vars
  /\ (lastEvent.op = "close" /\ reconnectArmed) ~>
       (lastEvent.op \in {"reconnect", "connect", "disconnect", "unmount"})

C20_Witness ==
  /\ lastEvent.op = "reconnect"
  /\ lastEvent.created
  /\ streak.api = "open"
  /\ streak.log = <<BackoffBaseMs>>
  /\ wsRef.readyState = "CONNECTING"

Range(s) == { s[i] : i \in DOMAIN s }

IsPass(e) == e.op \in {"open", "close"} \/ (e.op = "message" /\ e.error = "")

\* The registry a pass of event e runs over.
RegistryOf(e) ==
  IF e.op = "message" THEN messageHandlersRef ELSE connectionHandlersRef

\* C15: a notify pass operates over a stable snapshot: the handlers invoked
\* in one pass are exactly those registered when the pass began, each once,
\* whatever the handlers add to or delete from the registry during the pass.
C15_PassOverSnapshot ==
  [][ IsPass(lastEvent') =>
        /\ Range(lastEvent'.calls) = Range(RegistryOf(lastEvent'))
        /\ Len(lastEvent'.calls) = Len(RegistryOf(lastEvent')) ]_vars

SelfUnsubscribe(h) == [do |-> "delete", h |-> h]

\* The registry of event e's pass, as it is after the pass.
RegistryAfter(e) ==
  IF e.op = "message" THEN messageHandlersRef' ELSE connectionHandlersRef'

\* C16: in a pass in which handlers call their own unsubscribe function from
\* inside their callback (and the others just return), every registered
\* handler is still invoked exactly once, in registration order, and the
\* handlers that unsubscribed are gone from the registry; and no pass ever
\* invokes a handler that was neither registered when the pass began nor
\* added during it, so an unsubscribed handler is not invoked later.
C16_SelfUnsubscribeIsSafe ==
  [][ IsPass(lastEvent') =>
        LET registry == RegistryOf(lastEvent')
            behaviour == lastEvent'.behaviour
            calls == lastEvent'.calls
        IN
        /\ (/\ \A h \in Range(registry) :
                 behaviour[h] \in {Return, SelfUnsubscribe(h)}
            /\ \E h \in Range(registry) : behaviour[h] = SelfUnsubscribe(h))
             =>
             /\ calls = registry
             /\ RegistryAfter(lastEvent') =
                  SelectSeq(registry,
                            LAMBDA h : behaviour[h] # SelfUnsubscribe(h))
        /\ \A h \in Range(calls) :
             \/ h \in Range(registry)
             \/ \E g \in Range(calls) : behaviour[g] = [do |-> "add", h |-> h]
      ]_vars

C16_Witness ==
  /\ lastEvent.op = "message"
  /\ lastEvent.calls = <<"m1", "m2">>
  /\ lastEvent.behaviour["m1"] = SelfUnsubscribe("m1")
  /\ lastEvent.behaviour["m2"] = Return
  /\ messageHandlersRef = <<"m2">>

\* C21: for every action and every params object, including params that
\* carry a field named request_id, the frame sendRequest transmits carries a
\* request_id equal to the identifier under which the request was registered
\* in the Pending Request Table.
C21_FrameCarriesRegisteredId ==
  [][ (lastEvent'.op = "sendRequest" /\ lastEvent'.sent # NoFrame) =>
        /\ lastEvent'.requestId \in pendingRequestsRef'
        /\ lastEvent'.sent["request_id"] = lastEvent'.requestId ]_vars

\* C22: after the retry budget has been exhausted, or after disconnect(),
\* an explicit connect starts a fresh cycle with the full retry budget: if
\* the transport it constructs fails before opening, a reconnect is
\* scheduled with the first backoff delay, 1000 ms.
C22_ConnectStartsFreshCycle ==
  (/\ streak.api = "connect"
   /\ streak.start = maxReconnectAttempts
   /\ Len(streak.log) > 0) =>
     streak.log[1] = BackoffBaseMs

\* C23: if transmitting the frame throws after the request was registered,
\* the request's timer is cancelled, its entry is removed from the Pending
\* Request Table, the request fails with that error (once), and the
\* connection state and all other entries are unchanged.
C23_SendFailureWithdrawsRequest ==
  [][ (lastEvent'.op = "sendRequest" /\ lastEvent'.error = "send failed") =>
        /\ lastEvent'.requestId \notin pendingRequestsRef
        /\ pendingRequestsRef' = pendingRequestsRef
        /\ timers' = timers
        /\ lastEvent'.rejected = {lastEvent'.requestId}
        /\ lastEvent'.resolved = {}
        /\ completions' = Bump(completions, {lastEvent'.requestId})
        /\ completions'[lastEvent'.requestId] = 1
        /\ UNCHANGED <<isConnected, isConnecting, wsRef, messageHandlersRef,
                       connectionHandlersRef, serverConfigRef,
                       reconnectTimeoutRef, reconnectArmed,
                       reconnectAttemptsRef>> ]_vars

C23_Witness ==
  /\ lastEvent.op = "sendRequest"
  /\ lastEvent.error = "send failed"
  /\ lastEvent.rejected = {lastEvent.requestId}
  /\ pendingRequestsRef # {}
  /\ IsOpen

\* C24: whenever the manager holds no open transport (Disconnected,
\* Connecting or Reconnecting) the Pending Request Table is empty and no
\* request timer is armed; in particular the table is empty when a
\* transport opens, so a frame received on a connection can only resolve a
\* request issued on that connection.
C24_NoPendingWithoutOpenTransport ==
  /\ ~IsOpen => (pendingRequestsRef = {} /\ timers = {})
  /\ lastEvent.op = "open" => pendingRequestsRef = {}
  /\ lastEvent.resolved \subseteq { IdOf(n) : n \in 1..drawn }

C24_Witness ==
  /\ lastEvent.op = "disconnect"
  /\ lastEvent.rejected # {}
  /\ ~IsOpen
  /\ pendingRequestsRef = {}

IsStale(e) == e.op \in {"staleOpen", "staleMessage", "staleError"}

\* C25: once a transport has been replaced by connect() or dropped by
\* disconnect(), none of its later open, message, error or close events
\* changes the connection state, resolves or rejects a request, notifies an
\* observer or schedules a reconnect.
C25_DroppedTransportIsSilent ==
  /\ [][ IsStale(lastEvent') =>
           /\ UNCHANGED <<progVars, completions>>
           /\ lastEvent'.notified = {}
           /\ lastEvent'.resolved = {}
           /\ lastEvent'.rejected = {} ]_vars
  /\ []("onclose" \notin lastEvent.detached.handlers)

\* C26: on transport close, all pending requests are rejected and the
\* reconnect is scheduled (when the retry budget allows) regardless of what
\* the connection observers do during the false notification, including an
\* observer that throws.
C26_CloseCompletesDespiteObservers ==
  [][ lastEvent'.op = "close" =>
        /\ lastEvent'.rejected = pendingRequestsRef
        /\ pendingRequestsRef' = {}
        /\ timers' = {}
        /\ CanReconnect(reconnectAttemptsRef) =>
             (reconnectArmed'
                /\ reconnectTimeoutRef' = BackoffDelay(reconnectAttemptsRef))
      ]_vars

\* C27: at most one reconnect timer is armed at any time (ws.onclose never
\* arms one while another is waiting), none is armed while the manager is
\* Connecting or Connected, and the timer's callback never runs while the
\* manager holds a transport.
C27_ReconnectTimerOnlyWhileDisconnected ==
  /\ [](reconnectArmed => (wsRef = Null /\ ~isConnected /\ ~isConnecting))
  /\ [][ /\ (lastEvent'.op = "close" /\ reconnectArmed') => ~reconnectArmed
         /\ lastEvent'.op = "reconnect" => (wsRef = Null /\ ~isConnected)
       ]_vars

C27_Witness ==
  /\ lastEvent.op = "connect"
  /\ lastEvent.cleared
  /\ Connecting
  /\ ~reconnectArmed

\* C28: the consecutive-failure counter stays within 0..5 in every
\* reachable state; every reconnect delay that ws.onclose schedules lies
\* between 1000 ms and 10000 ms; and no reconnect is scheduled once the
\* counter is 5.
C28_CounterAndDelayBounded ==
  /\ [](reconnectAttemptsRef \in 0..maxReconnectAttempts)
  /\ [](reconnectArmed =>
          (reconnectTimeoutRef >= BackoffBaseMs
             /\ reconnectTimeoutRef <= BackoffCapMs))
  /\ [][ lastEvent'.op = "close" =>
           IF reconnectAttemptsRef = maxReconnectAttempts
             THEN ~reconnectArmed' /\ UNCHANGED reconnectTimeoutRef
             ELSE reconnectArmed' =>
                    /\ reconnectTimeoutRef' >= BackoffBaseMs
                    /\ reconnectTimeoutRef' <= BackoffCapMs ]_vars

C28_Witness ==
  /\ lastEvent.op = "close"
  /\ reconnectAttemptsRef = maxReconnectAttempts
  /\ ~reconnectArmed
  /\ streak.api = "open"
  /\ Len(streak.log) = 6

ReconnectsToRemembered ==
  (lastEvent'.op = "reconnect" /\ lastEvent'.created) =>
    lastEvent'.uri = Uri(serverConfigRef.ip, serverConfigRef.port)

RememberedOnlySetByConnect ==
  lastEvent'.op # "connect" => UNCHANGED serverConfigRef

\* C30 (as stated): every automatic reconnect targets the endpoint given to
\* the most recent connect call: the timer reconnects to the remembered
\* endpoint, and every connect call makes its endpoint the remembered one.
C30_ReconnectTargetsLatestConnect ==
  [][ /\ ReconnectsToRemembered
      /\ RememberedOnlySetByConnect
      /\ lastEvent'.op = "connect" =>
           serverConfigRef' = lastEvent'.endpoint ]_vars

\* C30 (amended): every automatic reconnect targets the endpoint given to
\* the most recent connect call that was not ignored: a connect call made
\* while no open transport is held makes its endpoint the remembered one,
\* and a connect call made while the transport is open changes nothing.
C30_ReconnectTargetsLatestEffectiveConnect ==
  [][ /\ ReconnectsToRemembered
      /\ RememberedOnlySetByConnect
      /\ lastEvent'.op = "connect" =>
           IF IsOpen
             THEN UNCHANGED progVars
             ELSE serverConfigRef' = lastEvent'.endpoint ]_vars

C30_Witness ==
  /\ lastEvent.op = "reconnect"
  /\ lastEvent.created
  /\ serverConfigRef = OtherConfig
  /\ lastEvent.uri = Uri(OtherConfig.ip, OtherConfig.port)
  /\ streak.api = "open"

====
